---- MODULE Spec2Model ----
(***************************************************************************)
(* A model of libelfin's ELF reader (elf/elf.cc): the header               *)
(* canonicalizer canon_hdr, file::file (open), the lazy section accessors  *)
(* get_name and data, the section lookups, strtab::get and the ownership   *)
(* graph of file::impl and section::impl.                                  *)
(*                                                                         *)
(* Memory is a flat address space of 2^PtrBits bytes.  The loader maps     *)
(* the file's bytes (image) at MapBase, followed by PadLen zero bytes      *)
(* (the rest of the last page); every other address is unmapped and a      *)
(* read of it faults.  Numbers decoded from raw bytes saturate at Huge:    *)
(* every value >= Huge is the one value Huge ("far outside any file").     *)
(***************************************************************************)
EXTENDS Integers, Sequences, FiniteSets, TLC

VARIABLES
    image,      \* the bytes of the file the loader serves
    cin,        \* canon_hdr's input: [kind, cls, ord, h], h the logical header
    cout,       \* canon_hdr's output: [out, reads], or NotRun
    st,         \* the File: "unopened", "open", or how the open ended
    hdr,        \* file::impl::hdr, the canonical file header
    secs,       \* file::impl::sections: section::impl [hdr, name, name_len, data] each
    openLoads,  \* the ranges <<address, length>> the open got from the loader
    openReads,  \* the ranges <<address, length>> the open's header decodes read
    last,       \* the last call on the File and what it returned
    sin,        \* strtab::get's input: the view [dat, end), its bytes, the offset
    sout,       \* strtab::get's result, or NotRun
    own         \* the ownership graph: the callers' handles and the live impls

canonVars == <<cin, cout>>
fileVars == <<st, hdr, secs, openLoads, openReads, last>>
strVars == <<sin, sout>>
vars == <<image, cin, cout, st, hdr, secs, openLoads, openReads, last, sin, sout, own>>

----------------------------------------------------------------------------
(* Bounds of the model *)

PtrBits == 24
MapBase == 16
PadLen == 24
MaxSections == 3
Huge == 4194304

AddrSpace == 2 ^ PtrBits

----------------------------------------------------------------------------
(* Constants of the ELF format, as elf++.hh declares them *)

NULL == 0
InvalidSection == -1
ELFCLASS32 == 1
ELFCLASS64 == 2
ELFDATA2LSB == 1
ELFDATA2MSB == 2
SHT_PROGBITS == 1
SHT_STRTAB == 3
SHT_NOBITS == 8

\* Records, so that they compare with headers and results
NotRun == [notrun |-> TRUE]
Fault == [fault |-> TRUE]
Indeterminate == [indeterminate |-> TRUE]

Min(a, b) == IF a < b THEN a ELSE b
Sat(x) == IF x >= Huge THEN Huge ELSE x

----------------------------------------------------------------------------
(* The mapped memory *)

FileSize == Len(image)
Mapped(a) == a >= MapBase /\ a < MapBase + FileSize + PadLen
RangeMapped(a, n) == n = 0 \/ (Mapped(a) /\ Mapped(a + n - 1))
MemByte(a) == IF a < MapBase + FileSize THEN image[a - MapBase + 1] ELSE 0

----------------------------------------------------------------------------
(* Raw header layouts: <<field, offset, width>> per class *)

EhdrLayout(cls) ==
    IF cls = ELFCLASS32
    THEN << <<"ei_mag0", 0, 1>>, <<"ei_mag1", 1, 1>>, <<"ei_mag2", 2, 1>>,
            <<"ei_mag3", 3, 1>>, <<"ei_class", 4, 1>>, <<"ei_data", 5, 1>>, <<"ei_version", 6, 1>>,
            <<"type", 16, 2>>, <<"machine", 18, 2>>, <<"version", 20, 4>>,
            <<"entry", 24, 4>>, <<"phoff", 28, 4>>, <<"shoff", 32, 4>>,
            <<"flags", 36, 4>>, <<"ehsize", 40, 2>>, <<"phentsize", 42, 2>>,
            <<"phnum", 44, 2>>, <<"shentsize", 46, 2>>, <<"shnum", 48, 2>>,
            <<"shstrndx", 50, 2>> >>
    ELSE << <<"ei_mag0", 0, 1>>, <<"ei_mag1", 1, 1>>, <<"ei_mag2", 2, 1>>,
            <<"ei_mag3", 3, 1>>, <<"ei_class", 4, 1>>, <<"ei_data", 5, 1>>, <<"ei_version", 6, 1>>,
            <<"type", 16, 2>>, <<"machine", 18, 2>>, <<"version", 20, 4>>,
            <<"entry", 24, 8>>, <<"phoff", 32, 8>>, <<"shoff", 40, 8>>,
            <<"flags", 48, 4>>, <<"ehsize", 52, 2>>, <<"phentsize", 54, 2>>,
            <<"phnum", 56, 2>>, <<"shentsize", 58, 2>>, <<"shnum", 60, 2>>,
            <<"shstrndx", 62, 2>> >>

ShdrLayout(cls) ==
    IF cls = ELFCLASS32
    THEN << <<"name", 0, 4>>, <<"type", 4, 4>>, <<"flags", 8, 4>>,
            <<"addr", 12, 4>>, <<"offset", 16, 4>>, <<"size", 20, 4>>,
            <<"link", 24, 4>>, <<"info", 28, 4>>, <<"addralign", 32, 4>>,
            <<"entsize", 36, 4>> >>
    ELSE << <<"name", 0, 4>>, <<"type", 4, 4>>, <<"flags", 8, 8>>,
            <<"addr", 16, 8>>, <<"offset", 24, 8>>, <<"size", 32, 8>>,
            <<"link", 40, 4>>, <<"info", 44, 4>>, <<"addralign", 48, 8>>,
            <<"entsize", 56, 8>> >>

Layout(kind, cls) == IF kind = "Ehdr" THEN EhdrLayout(cls) ELSE ShdrLayout(cls)

\* sizeof(Ehdr<E>) and sizeof(Shdr<E>)
SizeOf(kind, cls) ==
    IF kind = "Ehdr" THEN (IF cls = ELFCLASS32 THEN 52 ELSE 64)
    ELSE (IF cls = ELFCLASS32 THEN 40 ELSE 64)

FieldNames(kind) == {Layout(kind, ELFCLASS64)[i][1] : i \in 1..Len(Layout(kind, ELFCLASS64))}

EntryOf(kind, cls, n) ==
    LET L == Layout(kind, cls)
    IN  L[CHOOSE i \in 1..Len(L) : L[i][1] = n]

----------------------------------------------------------------------------
(* swizzle: a field of w raw bytes at address p, read in byte order ord *)

ReadField(p, w, ord) ==
    LET ByteAt(k) == MemByte(IF ord = ELFDATA2LSB THEN p + w - 1 - k ELSE p + k)
        RECURSIVE Horner(_, _)
        Horner(k, acc) == IF k = w THEN acc ELSE Horner(k + 1, Sat(acc * 256 + ByteAt(k)))
    IN  Horner(0, 0)

\* Hdr<E, Order>::from: every field of the raw struct at p, widened and swizzled
from(kind, cls, ord, p) ==
    IF ~RangeMapped(p, SizeOf(kind, cls)) THEN Fault
    ELSE [n \in FieldNames(kind) |->
            LET e == EntryOf(kind, cls, n) IN ReadField(p + e[2], e[3], ord)]

----------------------------------------------------------------------------
(* canon_hdr: the two nested switches.  The inner breaks leave the inner   *)
(* switch only, so the 32-bit arm runs on into the 64-bit arm.  The result *)
(* is [out, reads]: the canonical header left in out and the byte ranges   *)
(* <<address, length>> the decode read.                                    *)

canon_hdr(kind, out, p, ei_class, ei_data) ==
    LET valid == ei_data \in {ELFDATA2LSB, ELFDATA2MSB}
        in32 == ei_class = ELFCLASS32
        in64 == ei_class = ELFCLASS32 \/ ei_class = ELFCLASS64
        o32 == IF in32 /\ valid THEN from(kind, ELFCLASS32, ei_data, p) ELSE out
        r32 == IF in32 /\ valid THEN {<<p, SizeOf(kind, ELFCLASS32)>>} ELSE {}
        o64 == IF o32 = Fault THEN Fault
               ELSE IF in64 /\ valid THEN from(kind, ELFCLASS64, ei_data, p) ELSE o32
        r64 == IF o32 # Fault /\ in64 /\ valid THEN {<<p, SizeOf(kind, ELFCLASS64)>>} ELSE {}
    IN  [out |-> o64, reads |-> r32 \cup r64]

----------------------------------------------------------------------------
(* The reference encoder: a logical header laid out as class cls, order ord *)

RECURSIVE LSBytes(_, _)
LSBytes(v, w) == IF w = 0 THEN <<>> ELSE <<v % 256>> \o LSBytes(v \div 256, w - 1)

Reverse(s) == [i \in 1..Len(s) |-> s[Len(s) + 1 - i]]

EncodeField(v, w, ord) == IF ord = ELFDATA2LSB THEN LSBytes(v, w) ELSE Reverse(LSBytes(v, w))

Encode(kind, cls, ord, h) ==
    LET L == Layout(kind, cls)
        Owner(pos) == {i \in 1..Len(L) : L[i][2] <= pos /\ pos < L[i][2] + L[i][3]}
    IN  [j \in 1..SizeOf(kind, cls) |->
            IF Owner(j - 1) = {} THEN 0
            ELSE LET i == CHOOSE i \in Owner(j - 1) : TRUE
                 IN  EncodeField(h[L[i][1]], L[i][3], ord)[j - L[i][2]]]

----------------------------------------------------------------------------
(* Logical headers *)

MkEhdr(cls, ord, shoff, shentsize, shnum, shstrndx) ==
    [ei_mag0 |-> 127, ei_mag1 |-> 69, ei_mag2 |-> 76, ei_mag3 |-> 70,
     ei_class |-> cls, ei_data |-> ord, ei_version |-> 1,
     type |-> 1, machine |-> 62, version |-> 1, entry |-> 0, phoff |-> 0,
     shoff |-> shoff, flags |-> 0, ehsize |-> SizeOf("Ehdr", cls), phentsize |-> 0,
     phnum |-> 0, shentsize |-> shentsize, shnum |-> shnum, shstrndx |-> shstrndx]

MkShdr(name, type, offset, size) ==
    [name |-> name, type |-> type, flags |-> 0, addr |-> 0, offset |-> offset,
     size |-> size, link |-> 0, info |-> 0, addralign |-> 1, entsize |-> 0]

NoCall == [op |-> "none", sec |-> InvalidSection, result |-> "none"]

\* The File's variables in the specifications that open no file
FileIdle ==
    /\ st = "unopened"
    /\ hdr = Indeterminate
    /\ secs = <<>>
    /\ openLoads = {}
    /\ openReads = {}
    /\ last = NoCall

CanonIdle ==
    /\ cin = NotRun
    /\ cout = NotRun

StrIdle ==
    /\ sin = NotRun
    /\ sout = NotRun

LifeIdle == own = NotRun

----------------------------------------------------------------------------
(* Specification SpecCanon: canon_hdr as a function of its input *)

Classes == {ELFCLASS32, ELFCLASS64}
Orders == {ELFDATA2LSB, ELFDATA2MSB}

CanonHeaders(kind, cls, ord) ==
    IF kind = "Ehdr"
    THEN {MkEhdr(cls, ord, shoff, SizeOf("Shdr", cls), shnum, 0) :
              shoff \in {0, 64, 300}, shnum \in {0, 1, 258}}
    ELSE {MkShdr(name, type, offset, 11) :
              name \in {0, 1}, type \in {SHT_PROGBITS, SHT_STRTAB, SHT_NOBITS},
              offset \in {64, 513}}

\* What follows the header in the mapping: nothing (the zero padding) or other bytes
Trailers == {<<>>, [i \in 1..24 |-> 255], [i \in 1..24 |-> i]}

InitCanon ==
    /\ \E kind \in {"Ehdr", "Shdr"}, cls \in Classes, ord \in Orders, t \in Trailers :
         \E h \in CanonHeaders(kind, cls, ord) :
            /\ cin = [kind |-> kind, cls |-> cls, ord |-> ord, h |-> h]
            /\ image = Encode(kind, cls, ord, h) \o t
    /\ cout = NotRun
    /\ FileIdle
    /\ StrIdle
    /\ LifeIdle

Canon ==
    /\ cout = NotRun
    /\ cout' = canon_hdr(cin.kind, Indeterminate, MapBase, cin.cls, cin.ord)
    /\ UNCHANGED <<image, cin, fileVars, strVars, own>>

NextCanon == Canon

SpecCanon == InitCanon /\ [][NextCanon]_vars

----------------------------------------------------------------------------
(* Files.  A file is its header, then the payload bytes, then the section  *)
(* header table; d.eh overrides fields of the header, d.shdrs holds the    *)
(* logical section headers with offsets relative to the payload.           *)

Pad(s, n) == [i \in 1..n |-> IF i <= Len(s) THEN s[i] ELSE 0]

RECURSIVE Concat(_)
Concat(ss) == IF ss = <<>> THEN <<>> ELSE Head(ss) \o Concat(Tail(ss))

MkImage(cls, ord, d) ==
    LET hs == SizeOf("Ehdr", cls)
        es == IF d.shentsize < 0 THEN SizeOf("Shdr", cls) ELSE d.shentsize
        eh == d.eh @@ MkEhdr(cls, ord, hs + Len(d.pay), es, Len(d.shdrs), d.shstrndx)
        table == Concat([i \in 1..Len(d.shdrs) |->
                    Pad(Encode("Shdr", cls, ord,
                               [d.shdrs[i] EXCEPT !.offset = hs + @]), es)])
    IN  Encode("Ehdr", cls, ord, eh) \o d.pay \o table

\* Section names, as bytes
DotShstrtab == <<46, 115, 104, 115, 116, 114, 116, 97, 98>>
DotBss == <<46, 98, 115, 115>>
DotText == <<46, 116, 101, 120, 116>>
Nonexistent == <<110, 111, 110, 101, 120, 105, 115, 116, 101, 110, 116>>

NoOverride == [x \in {} |-> 0]

Desc(pay, shdrs, shstrndx) ==
    [pay |-> pay, shdrs |-> shdrs, shstrndx |-> shstrndx, shentsize |-> -1, eh |-> NoOverride]

\* No sections at all
TableNone == Desc(<<>>, <<>>, 0)
\* One string table holding "\0.shstrtab\0", at index 0
TableMin == Desc(<<0>> \o DotShstrtab \o <<0>>, <<MkShdr(1, SHT_STRTAB, 0, 11)>>, 0)
\* A string table and a no-bits section
TableBss ==
    Desc(<<0>> \o DotShstrtab \o <<0>> \o DotBss \o <<0>>,
         <<MkShdr(1, SHT_STRTAB, 0, 16), MkShdr(11, SHT_NOBITS, 16, 32)>>, 0)
\* A section with bytes, then the string table: shstrndx = 1
TableText ==
    Desc(<<1, 2, 3, 4, 0>> \o DotText \o <<0>> \o DotShstrtab \o <<0>>,
         <<MkShdr(1, SHT_PROGBITS, 0, 4), MkShdr(7, SHT_STRTAB, 4, 17)>>, 1)
\* shstrndx names a section that is no string table
TableNoStrtab == Desc(<<1, 2, 3, 4>>, <<MkShdr(1, SHT_PROGBITS, 0, 4)>>, 0)
\* An unterminated string table, and a name offset past its end
TableBadNames ==
    Desc(<<0, 97, 98>>, <<MkShdr(1, SHT_STRTAB, 0, 3), MkShdr(200, SHT_PROGBITS, 0, 3)>>, 0)
\* A section whose bytes lie past the end of the file
TableBeyond ==
    Desc(<<0>> \o DotShstrtab \o <<0>>,
         <<MkShdr(1, SHT_STRTAB, 0, 11), MkShdr(0, SHT_PROGBITS, 300, 64)>>, 0)

\* Headers the open must reject
BadHeaders ==
    {[ei_mag0 |-> 126], [ei_mag2 |-> 0], [ei_mag3 |-> 71], [ei_version |-> 0],
     [ei_version |-> 2], [ei_class |-> 0], [ei_class |-> 3], [ei_data |-> 0],
     [ei_data |-> 3], [version |-> 0], [version |-> 2], [shstrndx |-> 1],
     [shstrndx |-> 7], [ei_mag1 |-> 0, version |-> 2], [ei_class |-> 3, ei_data |-> 3]}

Images ==
    {MkImage(cls, ord, t) : cls \in Classes, ord \in Orders, t \in {TableMin, TableNone}}
    \cup {MkImage(ELFCLASS64, ELFDATA2LSB, t) : t \in {TableBss, TableNoStrtab, TableBeyond}}
    \cup {MkImage(ELFCLASS64, ELFDATA2MSB, t) : t \in {TableText, TableBadNames}}
    \cup {MkImage(ELFCLASS32, ELFDATA2MSB, TableBss)}
    \cup {MkImage(ELFCLASS64, ord, [TableBss EXCEPT !.shentsize = es]) :
              ord \in Orders, es \in {0, 48, 72}}
    \cup {MkImage(cls, ELFDATA2LSB, [TableMin EXCEPT !.eh = b]) :
              cls \in Classes, b \in BadHeaders}
    \cup {MkImage(ELFCLASS64, ELFDATA2MSB, [TableMin EXCEPT !.eh = b]) : b \in BadHeaders}
    \cup {SubSeq(MkImage(ELFCLASS64, ELFDATA2LSB, TableMin), 1, n) : n \in {0, 5, 20}}

----------------------------------------------------------------------------
(* The loader (external): load(offset, length) of a range inside the file  *)
(* returns its address in the mapping; a range outside the file fails.     *)

load(off, len) ==
    [ok |-> off + len <= FileSize, ptr |-> MapBase + off, req |-> <<MapBase + off, len>>]

\* a * b, saturating
Mul(a, b) == IF a = 0 \/ b = 0 THEN 0 ELSE IF a > Huge \div b THEN Huge ELSE a * b

----------------------------------------------------------------------------
(* section::impl(f): f is set; name, name_len and data have no initializer *)
(* and hold whatever the allocation held: null, a stale address inside the *)
(* mapping, or an address that is not mapped.                              *)

StalePtr == MapBase + 1
WildPtr == AddrSpace - 1

UninitImpls ==
    {[name |-> NULL, name_len |-> 0, data |-> NULL],
     [name |-> StalePtr, name_len |-> 5, data |-> NULL],
     [name |-> NULL, name_len |-> 5, data |-> StalePtr],
     [name |-> WildPtr, name_len |-> 0, data |-> WildPtr]}

\* section::section(f, hdr): the impl, its header canonicalized from the raw entry
section_impl(u, h) == [hdr |-> h, name |-> u.name, name_len |-> u.name_len, data |-> u.data]

----------------------------------------------------------------------------
(* file::file(loader), up to the canonical header of every section; the    *)
(* section::impl objects are made of them in Open.                         *)

Ended(how, h, S, loads, reads) ==
    [st |-> how, hdr |-> h, secs |-> S, loads |-> loads, reads |-> reads]

\* (faulty variant) the string-table index compared with > for >=
hdr_check_fails_off_by_one(h) == h.version # 1 \/ (h.shnum # 0 /\ h.shstrndx > h.shnum)

\* the checks on the canonical header, lines 84-87
hdr_check_fails(h) == h.version # 1 \/ (h.shnum # 0 /\ h.shstrndx >= h.shnum)

\* the checks on the identification bytes, lines 66-75
ident_check_fails(core) ==
    \/ <<MemByte(core), MemByte(core + 1), MemByte(core + 2), MemByte(core + 3)>>
           # <<127, 69, 76, 70>>
    \/ MemByte(core + 6) # 1
    \/ MemByte(core + 4) \notin {ELFCLASS32, ELFCLASS64}
    \/ MemByte(core + 5) \notin {ELFDATA2LSB, ELFDATA2MSB}

load_sections(h, loads, reads) ==
    LET l3 == load(h.shoff, Mul(h.shentsize, h.shnum))
        loads3 == loads \cup {l3.req}
        c(i) == canon_hdr("Shdr", Indeterminate, l3.ptr + i * h.shentsize,
                          h.ei_class, h.ei_data)
        n == h.shnum
        allReads == reads \cup UNION {c(i).reads : i \in 0..(n - 1)}
    IN  IF ~l3.ok THEN Ended("loader_error", h, <<>>, loads3, reads)
        ELSE IF \E i \in 0..(n - 1) : c(i).out = Fault
             THEN Ended("crashed", h, <<>>, loads3, allReads)
        ELSE Ended("open", h, [i \in 1..n |-> c(i - 1).out], loads3, allReads)

file_file ==
    LET l1 == load(0, 7)
        core == l1.ptr
        ei_class == MemByte(core + 4)
        ei_data == MemByte(core + 5)
        hdr_size == IF ei_class = ELFCLASS32 THEN SizeOf("Ehdr", ELFCLASS32)
                    ELSE SizeOf("Ehdr", ELFCLASS64)
        l2 == load(0, hdr_size)
        c == canon_hdr("Ehdr", Indeterminate, l2.ptr, ei_class, ei_data)
        loads2 == {l1.req, l2.req}
        reads2 == {<<core, 7>>} \cup c.reads
    IN  IF ~l1.ok THEN Ended("loader_error", Indeterminate, <<>>, {l1.req}, {})
        ELSE IF ident_check_fails(core)
             THEN Ended("format_error", Indeterminate, <<>>, {l1.req}, {<<core, 7>>})
        ELSE IF ~l2.ok THEN Ended("loader_error", Indeterminate, <<>>, loads2, {<<core, 7>>})
        ELSE IF c.out = Fault THEN Ended("crashed", Indeterminate, <<>>, loads2, reads2)
        ELSE IF hdr_check_fails(c.out) THEN Ended("format_error", c.out, <<>>, loads2, reads2)
        ELSE load_sections(c.out, loads2, reads2)

----------------------------------------------------------------------------
(* What a call returns: the sections after it (their caches), how it ended *)
(* ("ok", the exception it raised, or "crash" for a read of unmapped       *)
(* memory), the value returned, the length-out, and the loader requests   *)
(* <<section, address, length>> it issued, in order.                       *)

Ret(S, result, ret, len, loads) ==
    [secs |-> S, result |-> result, ret |-> ret, len |-> len, loads |-> loads]

\* The C string at address p: its bytes up to the first null byte
StrAt(p) ==
    LET lim == MapBase + FileSize + PadLen
        zs == {q \in p..(lim - 1) : MemByte(q) = 0}
        z == CHOOSE q \in zs : \A r \in zs : q <= r
    IN  IF ~Mapped(p) \/ zs = {} THEN [ok |-> FALSE, s |-> <<>>]
        ELSE [ok |-> TRUE, s |-> [k \in 1..(z - p) |-> MemByte(p + k - 1)]]

\* Pointer arithmetic wraps at the width of a pointer
PtrAdd(p, n) == (p + n) % AddrSpace

\* (faulty variant) data() that loads on every call and caches nothing
data_uncached(S, i) ==
    LET m == S[i + 1]
        l == load(m.hdr.offset, m.hdr.size)
        req == <<i, l.req[1], l.req[2]>>
    IN  IF m.hdr.type = SHT_NOBITS THEN Ret(S, "ok", NULL, 0, <<>>)
        ELSE IF ~l.ok THEN Ret(S, "loader_error", NULL, 0, <<req>>)
        ELSE Ret(S, "ok", l.ptr, 0, <<req>>)

\* (faulty variant) data() without the test for a no-bits section
data_loads_nobits(S, i) ==
    LET m == S[i + 1]
        l == load(m.hdr.offset, m.hdr.size)
        req == <<i, l.req[1], l.req[2]>>
    IN  IF m.data # NULL THEN Ret(S, "ok", m.data, 0, <<>>)
        ELSE IF ~l.ok THEN Ret(S, "loader_error", NULL, 0, <<req>>)
        ELSE Ret([S EXCEPT ![i + 1].data = l.ptr], "ok", l.ptr, 0, <<req>>)

\* section::data, lines 179-187
data(S, i) ==
    LET m == S[i + 1]
        l == load(m.hdr.offset, m.hdr.size)
        req == <<i, l.req[1], l.req[2]>>
    IN  IF m.hdr.type = SHT_NOBITS THEN Ret(S, "ok", NULL, 0, <<>>)
        ELSE IF m.data # NULL THEN Ret(S, "ok", m.data, 0, <<>>)
        ELSE IF ~l.ok THEN Ret(S, "loader_error", NULL, 0, <<req>>)
        ELSE Ret([S EXCEPT ![i + 1].data = l.ptr], "ok", l.ptr, 0, <<req>>)

\* section::size, lines 189-193
size(S, i) == S[i + 1].hdr.size

\* section::as_strtab and strtab::strtab, lines 195-219: ret is the view's
\* data, len its end
as_strtab(S, i) ==
    LET d == data(S, i)
    IN  IF S[i + 1].hdr.type # SHT_STRTAB THEN Ret(S, "section_type_mismatch", NULL, 0, <<>>)
        ELSE IF d.result # "ok" THEN d
        ELSE Ret(d.secs, "ok", d.ret, PtrAdd(d.ret, size(S, i)), d.loads)

\* strtab::get(offset, len_out), lines 221-239, on the view [data, end)
strtab_get(dat, end, offset) ==
    LET start == PtrAdd(dat, offset)
        lim == Min(end, IF Mapped(start) THEN MapBase + FileSize + PadLen ELSE start)
        zs == {q \in start..(lim - 1) : MemByte(q) = 0}
        p == CHOOSE q \in zs : \A r \in zs : q <= r
    IN  IF start >= end THEN [result |-> "range_error", ret |-> NULL, len |-> 0]
        ELSE IF zs # {} THEN [result |-> "ok", ret |-> start, len |-> p - start]
        ELSE IF lim = end THEN [result |-> "format_error", ret |-> NULL, len |-> 0]
        ELSE [result |-> "crash", ret |-> NULL, len |-> 0]

\* (faulty variant) the bounds check with > for >=
get_section_index_off_by_one(S, index) ==
    IF index > Len(S) THEN InvalidSection ELSE index

\* file::get_section(unsigned), lines 125-131: the section's index, or the sentinel
get_section_index(S, index) ==
    IF index >= Len(S) THEN InvalidSection ELSE index

\* (faulty variant) get_name() that caches the name in the string-table section's impl
get_name_caches_in_table(S, h, i) ==
    LET m == S[i + 1]
        tab == get_section_index(S, h.shstrndx)
        t == as_strtab(S, tab)
        g == strtab_get(t.ret, t.len, m.hdr.name)
    IN  IF m.name # NULL THEN Ret(S, "ok", m.name, m.name_len, <<>>)
        ELSE IF tab = InvalidSection THEN Ret(S, "crash", NULL, 0, <<>>)
        ELSE IF t.result # "ok" THEN Ret(t.secs, t.result, NULL, 0, t.loads)
        ELSE IF g.result # "ok" THEN Ret(t.secs, g.result, NULL, 0, t.loads)
        ELSE Ret([t.secs EXCEPT ![tab + 1].name = g.ret, ![tab + 1].name_len = g.len],
                 "ok", g.ret, g.len, t.loads)

\* section::get_name(len_out), lines 161-171
get_name(S, h, i) ==
    LET m == S[i + 1]
        tab == get_section_index(S, h.shstrndx)
        t == as_strtab(S, tab)
        g == strtab_get(t.ret, t.len, m.hdr.name)
    IN  IF m.name # NULL THEN Ret(S, "ok", m.name, m.name_len, <<>>)
        ELSE IF tab = InvalidSection THEN Ret(S, "crash", NULL, 0, <<>>)
        ELSE IF t.result # "ok" THEN Ret(t.secs, t.result, NULL, 0, t.loads)
        ELSE IF g.result # "ok" THEN Ret(t.secs, g.result, NULL, 0, t.loads)
        ELSE Ret([t.secs EXCEPT ![i + 1].name = g.ret, ![i + 1].name_len = g.len],
                 "ok", g.ret, g.len, t.loads)

\* file::get_section(name), lines 116-123: the scan from section i on
RECURSIVE scan_names(_, _, _, _, _)
scan_names(S, h, name, i, loads) ==
    LET r == get_name(S, h, i)
        str == StrAt(r.ret)
    IN  IF i >= Len(S) THEN Ret(S, "ok", InvalidSection, 0, loads)
        ELSE IF r.result # "ok" THEN Ret(r.secs, r.result, NULL, 0, loads \o r.loads)
        ELSE IF ~str.ok THEN Ret(r.secs, "crash", NULL, 0, loads \o r.loads)
        ELSE IF str.s = name THEN Ret(r.secs, "ok", i, 0, loads \o r.loads)
        ELSE scan_names(r.secs, h, name, i + 1, loads \o r.loads)

get_section_name(S, h, name) == scan_names(S, h, name, 0, <<>>)

----------------------------------------------------------------------------
(* Specification Spec: a file is opened, then its sections are used *)

Init ==
    /\ image \in Images
    /\ FileIdle
    /\ CanonIdle
    /\ StrIdle
    /\ LifeIdle

\* U is what each section::impl's uninitialized fields hold
Open ==
    /\ st = "unopened"
    /\ Len(file_file.secs) <= MaxSections
    /\ \E U \in [1..Len(file_file.secs) -> UninitImpls] :
         LET r == file_file
         IN  /\ st' = r.st
             /\ hdr' = r.hdr
             /\ secs' = [i \in 1..Len(r.secs) |-> section_impl(U[i], r.secs[i])]
             /\ openLoads' = r.loads
             /\ openReads' = r.reads
             /\ last' = [op |-> "open", sec |-> InvalidSection, result |-> r.st]
    /\ UNCHANGED <<image, canonVars, strVars, own>>

ProbeNames == {DotShstrtab, DotBss, Nonexistent}

\* A call that returned r: the caches it changed, and the record of the call
Called(op, i, arg, r) ==
    /\ st' = IF r.result = "crash" THEN "crashed" ELSE st
    /\ secs' = r.secs
    /\ last' = [op |-> op, sec |-> i, arg |-> arg, result |-> r.result, ret |-> r.ret,
                len |-> r.len, loads |-> r.loads,
                rep |-> /\ last.op = op
                        /\ last.sec = i
                        /\ last.result = "ok"
                        /\ r.result = "ok"]
    /\ UNCHANGED <<image, canonVars, strVars, own, hdr, openLoads, openReads>>

Data(i) ==
    /\ st = "open"
    /\ i \in 0..(Len(secs) - 1)
    /\ Called("data", i, 0, data(secs, i))

GetName(i) ==
    /\ st = "open"
    /\ i \in 0..(Len(secs) - 1)
    /\ Called("get_name", i, 0, get_name(secs, hdr, i))

Size(i) ==
    /\ st = "open"
    /\ i \in 0..(Len(secs) - 1)
    /\ Called("size", i, 0, Ret(secs, "ok", size(secs, i), 0, <<>>))

AsStrtab(i) ==
    /\ st = "open"
    /\ i \in 0..(Len(secs) - 1)
    /\ Called("as_strtab", i, 0, as_strtab(secs, i))

GetSectionIndex(k) ==
    /\ st = "open"
    /\ Called("get_section_index", InvalidSection, k,
              Ret(secs, "ok", get_section_index(secs, k), 0, <<>>))

GetSectionName(n) ==
    /\ st = "open"
    /\ Called("get_section_name", InvalidSection, n, get_section_name(secs, hdr, n))

Next ==
    \/ Open
    \/ \E i \in 0..(MaxSections - 1) : Data(i) \/ GetName(i) \/ Size(i) \/ AsStrtab(i)
    \/ \E k \in 0..(MaxSections + 1) \cup {99999} : GetSectionIndex(k)
    \/ \E n \in ProbeNames : GetSectionName(n)

Spec == Init /\ [][Next]_vars

----------------------------------------------------------------------------
(* Specification SpecStrtab: strtab::get as a function of the table and    *)
(* the offset.  The table lies in the mapping after `before` and ahead of  *)
(* `after`; the offsets are the small ones and the largest ones of the     *)
(* offset type, which is as wide as a pointer.                             *)

MaxTable == 11
TopOffsets == 20

StrTables == {<<>>, <<0>> \o DotShstrtab \o <<0>>, <<0, 97, 98>>, <<97, 0, 98, 0>>}
Surroundings == {<<>>, <<120, 0, 121>>}
Offsets == 0..(MaxTable + 2) \cup {AddrSpace - k : k \in 1..TopOffsets}

InitStrtab ==
    /\ \E t \in StrTables, before \in Surroundings, after \in Surroundings, o \in Offsets :
          /\ image = before \o t \o after
          /\ sin = [dat |-> MapBase + Len(before), end |-> MapBase + Len(before) + Len(t),
                    table |-> t, offset |-> o]
    /\ sout = NotRun
    /\ FileIdle
    /\ CanonIdle
    /\ LifeIdle

\* m->data + offset past the top of the address space is undefined: the build
\* either wraps the address (PtrAdd) or traps
Get ==
    /\ sout = NotRun
    /\ \E r \in {strtab_get(sin.dat, sin.end, sin.offset)}
                 \cup (IF sin.dat + sin.offset >= AddrSpace
                       THEN {[result |-> "crash", ret |-> NULL, len |-> 0]} ELSE {}) :
          sout' = r
    /\ UNCHANGED <<image, sin, canonVars, fileVars, own>>

NextStrtab == Get

SpecStrtab == InitStrtab /\ [][NextStrtab]_vars

----------------------------------------------------------------------------
(* Specification SpecLife: who owns what.  A file handle owns file::impl;  *)
(* file::impl::sections owns every section::impl; section::impl::f and     *)
(* strtab::impl::f are file handles of their own.  An impl is destroyed    *)
(* when the last shared_ptr to it goes.                                    *)

MaxHandles == 2

\* use_count of file::impl: the callers' file handles, every live section::impl's f,
\* every live strtab::impl's f
file_use(o) == o.files + Cardinality({i \in 1..o.n : o.secAlive[i]}) + o.tabs

\* use_count of section::impl i: the callers' copies, and the File's vector
section_use(o, i) == o.sections[i] + (IF o.fileAlive THEN 1 ELSE 0)

\* The destructors that run once a handle has gone: file::impl at use count 0, and
\* with it its vector; then every section::impl at use count 0
release(o) ==
    LET fa == o.fileAlive /\ file_use(o) > 0
        o1 == [o EXCEPT !.fileAlive = fa]
    IN  [o1 EXCEPT !.secAlive = [i \in 1..o.n |-> o.secAlive[i] /\ section_use(o1, i) > 0]]

\* file::file: the impl, and one section::impl per entry, each holding f (lines 53, 92-95)
open_file(n) ==
    [n |-> n, files |-> 1, sections |-> [i \in 1..n |-> 0], tabs |-> 0,
     fileAlive |-> TRUE, secAlive |-> [i \in 1..n |-> TRUE]]

InitLife ==
    /\ image = <<>>
    /\ own = NotRun
    /\ FileIdle
    /\ CanonIdle
    /\ StrIdle

LifeStep(o) ==
    /\ own' = o
    /\ UNCHANGED <<image, canonVars, fileVars, strVars>>

LifeOpen ==
    /\ own = NotRun
    /\ \E n \in 0..MaxSections : LifeStep(open_file(n))

CopyFile ==
    /\ own # NotRun
    /\ own.files \in 1..(MaxHandles - 1)
    /\ LifeStep([own EXCEPT !.files = @ + 1])

ReleaseFile ==
    /\ own # NotRun
    /\ own.files >= 1
    /\ LifeStep(release([own EXCEPT !.files = @ - 1]))

\* a copy of sections()[i] or of get_section(i), or of a section handle already held
CopySection(i) ==
    /\ own # NotRun
    /\ i \in 1..own.n
    /\ own.files >= 1 \/ own.sections[i] >= 1
    /\ own.sections[i] < MaxHandles
    /\ LifeStep([own EXCEPT !.sections[i] = @ + 1])

ReleaseSection(i) ==
    /\ own # NotRun
    /\ i \in 1..own.n
    /\ own.sections[i] >= 1
    /\ LifeStep(release([own EXCEPT !.sections[i] = @ - 1]))

\* as_strtab() on a section the caller reaches: a strtab::impl holding f
TakeStrtab ==
    /\ own # NotRun
    /\ own.n >= 1
    /\ own.files >= 1 \/ \E i \in 1..own.n : own.sections[i] >= 1
    /\ own.tabs < MaxHandles
    /\ LifeStep([own EXCEPT !.tabs = @ + 1])

ReleaseStrtab ==
    /\ own # NotRun
    /\ own.tabs >= 1
    /\ LifeStep(release([own EXCEPT !.tabs = @ - 1]))

NextLife ==
    \/ LifeOpen
    \/ CopyFile
    \/ ReleaseFile
    \/ \E i \in 1..MaxSections : CopySection(i) \/ ReleaseSection(i)
    \/ TakeStrtab
    \/ ReleaseStrtab

SpecLife == InitLife /\ [][NextLife]_vars

----------------------------------------------------------------------------
(* Claims *)

\* C1: for each of the four (class, byte order) pairs, canon_hdr leaves in out the
\* logical header that was encoded under that pair's layout, for file headers and
\* section headers alike.
C1_CanonDecodesExactlyItsLayout ==
    cout # NotRun => cout.out = cin.h

C1_Witness64 ==
    cout # NotRun /\ cin.cls = ELFCLASS64 /\ cin.h.shnum = 258 /\ cout.out = cin.h

\* The identification bytes of the file, read from the file itself
IdentBad ==
    \/ SubSeq(image, 1, 4) # <<127, 69, 76, 70>>
    \/ image[7] # 1
    \/ image[5] \notin {1, 2}
    \/ image[6] \notin {1, 2}

HdrBad == hdr.version # 1 \/ (hdr.shnum # 0 /\ hdr.shstrndx >= hdr.shnum)

\* C2: an open whose identification bytes are bad (magic, version byte, class byte,
\* data byte) or whose canonical header has version # 1 or shnum # 0 with
\* shstrndx >= shnum ends in a format error; a failed open leaves no File, and every
\* File that exists has version = 1 and (shnum = 0 or shstrndx < shnum).
C2_OpenRejectsBadHeaders ==
    /\ (st # "unopened" /\ FileSize >= 7 /\ IdentBad) => st = "format_error"
    /\ (st # "unopened" /\ hdr # Indeterminate /\ HdrBad) => st = "format_error"
    /\ st \in {"format_error", "loader_error"} => secs = <<>>
    /\ (last.op = "open" /\ st # "open") => secs = <<>>
    /\ (st = "open" \/ secs # <<>>) =>
          /\ ~IdentBad
          /\ hdr.version = 1
          /\ (hdr.shnum = 0 \/ hdr.shstrndx < hdr.shnum)
          /\ Len(secs) = hdr.shnum

C2_WitnessBadShstrndx ==
    st = "format_error" /\ hdr # Indeterminate /\ hdr.version = 1
        /\ hdr.shnum # 0 /\ hdr.shstrndx = hdr.shnum

\* The name of section i as the file holds it: the bytes of the payload of section
\* shstrndx from offset hdr.name of section i up to the first null byte
NameInFile(i) ==
    LET t == secs[hdr.shstrndx + 1].hdr
        from_ == t.offset + secs[i + 1].hdr.name
        to == Min(t.offset + t.size, FileSize)
        zs == {q \in from_..(to - 1) : image[q + 1] = 0}
        z == CHOOSE q \in zs : \A r \in zs : q <= r
    IN  IF t.type # SHT_STRTAB \/ secs[i + 1].hdr.name >= t.size \/ zs = {}
        THEN [ok |-> FALSE, s |-> <<>>]
        ELSE [ok |-> TRUE, s |-> [k \in 1..(z - from_) |-> image[from_ + k]]]

\* C3: get_name() on section i returns the bytes of section shstrndx's payload from
\* offset hdr.name of section i up to the first null byte, and the length-out is
\* their number; the file whose only section is the string table "\0.shstrtab\0"
\* has one section, named ".shstrtab".
C3_GetNameReadsStringTable ==
    (last.op = "get_name" /\ last.result = "ok") =>
        /\ NameInFile(last.sec).ok
        /\ StrAt(last.ret) = NameInFile(last.sec)
        /\ last.len = Len(NameInFile(last.sec).s)
        /\ (image = MkImage(ELFCLASS64, ELFDATA2LSB, TableMin) =>
               Len(secs) = 1 /\ StrAt(last.ret).s = DotShstrtab)

C3_WitnessShstrtab ==
    /\ last.op = "get_name"
    /\ last.result = "ok"
    /\ last.len = 9
    /\ StrAt(last.ret).s = DotShstrtab
    /\ Len(secs) = 1

\* No section's name in the file is n
NoSectionNamed(n) ==
    \A j \in 0..(Len(secs) - 1) : ~(NameInFile(j).ok /\ NameInFile(j).s = n)

\* C4 (as stated): on every opened File a lookup that misses raises nothing and
\* returns the sentinel: get_section(index) with index >= sections().size(), and
\* get_section(name) with a name no section has.
C4_MissNeverRaises ==
    /\ (last.op = "get_section_index" /\ last.arg >= Len(secs)) =>
          (last.result = "ok" /\ last.ret = InvalidSection)
    /\ (last.op = "get_section_name" /\ last.result # "crash" /\ NoSectionNamed(last.arg)) =>
          (last.result = "ok" /\ last.ret = InvalidSection)

\* C4 (amended): get_section(index) with index >= sections().size() returns the
\* sentinel and raises nothing; get_section(name) returns the sentinel whenever its
\* scan ends with every section's get_name having returned a name other than the
\* one sought, and what it raises otherwise is what get_name raises for a section.
C4_MissReturnsSentinelUnlessNameFails ==
    /\ (last.op = "get_section_index" /\ last.arg >= Len(secs)) =>
          (last.result = "ok" /\ last.ret = InvalidSection)
    /\ (last.op = "get_section_name" /\ last.result = "ok"
           /\ \A j \in 1..Len(secs) : StrAt(secs[j].name) # [ok |-> TRUE, s |-> last.arg]) =>
          last.ret = InvalidSection
    /\ (last.op = "get_section_name" /\ last.result \notin {"ok", "crash"}) =>
          \E j \in 0..(Len(secs) - 1) : get_name(secs, hdr, j).result = last.result

C4_WitnessMiss ==
    /\ last.op = "get_section_name"
    /\ last.result = "ok"
    /\ last.ret = InvalidSection
    /\ Len(secs) >= 2
    /\ last.loads # <<>>

\* C6: two successive successful calls to data(), or to get_name(), on the same
\* section return the same range, name and length, and the second issues no request
\* to the loader.
C6_LazyCachingIdempotent ==
    [][(/\ last'.op \in {"data", "get_name"}
        /\ last.op = last'.op
        /\ last.sec = last'.sec
        /\ last.result = "ok"
        /\ last'.result = "ok")
       => (last'.ret = last.ret /\ last'.len = last.len /\ last'.loads = <<>>)]_vars

C6_WitnessSecondCall ==
    /\ last.op \in {"data", "get_name"}
    /\ last.rep
    /\ last.ret # NULL
    /\ last.ret \notin {StalePtr, WildPtr}

\* C7: data() on a no-bits section returns null and issues no loader request, no call
\* ever issues a loader request for a no-bits section, and size() returns the size
\* field of the section's header.
C7_NoBitsNeverLoaded ==
    /\ (last.op = "data" /\ secs[last.sec + 1].hdr.type = SHT_NOBITS) =>
          (last.result = "ok" /\ last.ret = NULL /\ last.loads = <<>>)
    /\ (last.op \in {"data", "get_name", "as_strtab", "get_section_name"}) =>
          \A k \in 1..Len(last.loads) : secs[last.loads[k][1] + 1].hdr.type # SHT_NOBITS
    /\ last.op = "size" => last.ret = secs[last.sec + 1].hdr.size

C7_WitnessNoBits ==
    /\ last.op = "data"
    /\ secs[last.sec + 1].hdr.type = SHT_NOBITS
    /\ secs[last.sec + 1].hdr.size = 32
    /\ secs[last.sec + 1].data # NULL
    /\ last.ret = NULL

\* The cached fields of section j (1-based) are the same after the step
SameCaches(j) ==
    /\ secs'[j].name = secs[j].name
    /\ secs'[j].name_len = secs[j].name_len
    /\ secs'[j].data = secs[j].data

\* The File's header and its sequence of section headers are the same after the step
SameFile ==
    /\ hdr' = hdr
    /\ Len(secs') = Len(secs)
    /\ \A j \in 1..Len(secs) : secs'[j].hdr = secs[j].hdr

\* C8 (as stated): get_name() or data() on section S changes only S's own cached name
\* and cached data: every other section's caches, the File's header and the section
\* sequence are as before.
C8_OnlyOwnCacheChanges ==
    [][last'.op \in {"get_name", "data"} =>
          /\ SameFile
          /\ \A j \in 1..Len(secs) : j # last'.sec + 1 => SameCaches(j)]_vars

\* C8 (amended): data() on S changes only S's cached data; get_name() on S changes
\* only S's cached name and length and the cached data of the string-table section
\* (index shstrndx); the File's header and section headers are as before.
C8_OwnCacheAndStringTableData ==
    [][/\ last'.op = "data" =>
            /\ SameFile
            /\ \A j \in 1..Len(secs) : j # last'.sec + 1 => SameCaches(j)
            /\ secs'[last'.sec + 1].name = secs[last'.sec + 1].name
            /\ secs'[last'.sec + 1].name_len = secs[last'.sec + 1].name_len
       /\ last'.op = "get_name" =>
            /\ SameFile
            /\ \A j \in 1..Len(secs) :
                  /\ j \notin {last'.sec + 1, hdr.shstrndx + 1} => SameCaches(j)
                  /\ j # last'.sec + 1 =>
                        (secs'[j].name = secs[j].name /\ secs'[j].name_len = secs[j].name_len)
                  /\ j # hdr.shstrndx + 1 => secs'[j].data = secs[j].data]_vars

C8_WitnessSiblingLoaded ==
    /\ last.op = "get_name"
    /\ last.result = "ok"
    /\ last.sec # hdr.shstrndx
    /\ last.loads # <<>>
    /\ secs[hdr.shstrndx + 1].data = last.loads[1][2]

Within(r, l) == l[1] <= r[1] /\ r[1] + r[2] <= l[1] + l[2]

\* C10: every raw header byte the open decodes lies inside a range the open
\* requested from the loader.
C10_OpenReadsOnlyLoadedBytes ==
    \A r \in openReads : \E l \in openLoads : Within(r, l)

\* The table's bytes from offset o on hold a null byte
Terminated(t, o) == \E q \in (o + 1)..Len(t) : t[q] = 0

FirstNull(t, o) == CHOOSE q \in (o + 1)..Len(t) : t[q] = 0 /\ \A r \in (o + 1)..(q - 1) : t[r] # 0

\* C5: for a table of length L and every offset: get(offset) raises a range error
\* when offset >= L, a format error when offset < L and no null byte lies in
\* [offset, L), and otherwise returns the bytes from offset up to the first null byte
\* at or after it, with their number as length-out.
C5_GetChecksEveryOffset ==
    sout # NotRun =>
        LET t == sin.table
            o == sin.offset
        IN  /\ o >= Len(t) => sout.result = "range_error"
            /\ (o < Len(t) /\ ~Terminated(t, o)) => sout.result = "format_error"
            /\ (o < Len(t) /\ Terminated(t, o)) =>
                  /\ sout.result = "ok"
                  /\ sout.ret = sin.dat + o
                  /\ sout.len = FirstNull(t, o) - 1 - o
                  /\ StrAt(sout.ret).s = SubSeq(t, o + 1, FirstNull(t, o) - 1)

C5_WitnessInRange ==
    sout # NotRun /\ sin.offset = 1 /\ sout.result = "ok" /\ sout.len = 9

\* C9: once the callers have released every File, Section and String Table handle,
\* the File's storage is destroyed, whatever the number of sections.
C9_StorageFreedWithLastHandle ==
    (own # NotRun /\ own.files = 0 /\ own.tabs = 0 /\ \A i \in 1..own.n : own.sections[i] = 0)
        => ~own.fileAlive

C9_WitnessNoSections ==
    own # NotRun /\ own.n = 0 /\ own.files = 0 /\ ~own.fileAlive

C10_WitnessSectionsDecoded ==
    st = "open" /\ Len(secs) = 2 /\ C10_OpenReadsOnlyLoadedBytes

====
